---- MODULE Spec2Model ----
(***************************************************************************)
(* Model of the two pre-commit hooks of exhuma/pre-commit-hooks:           *)
(*   src/src/precommit_hooks/check_for_markers.py  (the canonical scanner) *)
(*   src/src/precommit_hooks/check_for_xxx.py      (the simplified one)    *)
(*                                                                         *)
(* A Python str is a sequence of one-character strings, a list a sequence. *)
(* Python indices are 0-based and slices half-open; At and Slice keep that *)
(* convention so that the definitions read like the code they model.       *)
(* difflib's SequenceMatcher is modelled without its "autojunk" heuristic, *)
(* which only acts on sequences of 200 lines or more.                      *)
(***************************************************************************)
EXTENDS Integers, Sequences, FiniteSets, TLC

\* ------------------------------------------------------------------ bounds

\* Longest old text, in lines, handed to collect_errors.
MaxOldLines == 2
\* Longest new text, in lines, handed to collect_errors.
MaxNewLines == 3
\* Longest pattern list handed to collect_errors.
MaxPatterns == 2
\* Most files the repository of a driver run holds.
MaxFiles == 2
\* Most body lines of the `git diff --cached` output check_for_xxx reads.
MaxDiffLines == 3

\* ------------------------------------------------------ Optional values
\* None is the empty sequence, any other value v the one-element <<v>>.

None == <<>>

Some(v) == <<v>>

IsNone(o) == o = <<>>

Val(o) == o[1]

\* ------------------------------------------------------------ str helpers

At(s, i) == s[i + 1]

Slice(s, lo, hi) == SubSeq(s, lo + 1, hi)

Min(x, y) == IF x <= y THEN x ELSE y

Max(x, y) == IF x >= y THEN x ELSE y

\* str.startswith
StartsWith(s, p) == Len(s) >= Len(p) /\ SubSeq(s, 1, Len(p)) = p

\* `p in s` for str / bytes
Contains(s, p) ==
    \E i \in 0..(Len(s) - Len(p)) : Slice(s, i, i + Len(p)) = p

Whitespace == {" ", "\t", "\n", "\r"}

RECURSIVE LStrip(_)
LStrip(s) ==
    IF s # <<>> /\ Head(s) \in Whitespace THEN LStrip(Tail(s)) ELSE s

RECURSIVE RStrip(_)
RStrip(s) ==
    IF s # <<>> /\ s[Len(s)] \in Whitespace
    THEN RStrip(SubSeq(s, 1, Len(s) - 1))
    ELSE s

\* str.strip()
Strip(s) == LStrip(RStrip(s))

\* Index (1-based) of the first occurrence of character c in s, 0 if none.
FirstIndex(s, c) ==
    IF \E i \in 1..Len(s) : s[i] = c
    THEN CHOOSE i \in 1..Len(s) : s[i] = c /\ \A k \in 1..(i - 1) : s[k] # c
    ELSE 0

\* str.split(sep) for a one-character separator
RECURSIVE Split(_, _)
SplitAt(s, c, i) ==
    IF i = 0
    THEN <<s>>
    ELSE <<SubSeq(s, 1, i - 1)>> \o Split(SubSeq(s, i + 1, Len(s)), c)

Split(s, c) == SplitAt(s, c, FirstIndex(s, c))

\* str.splitlines() on "\n": no empty last line after a final terminator
RECURSIVE SplitLines(_)
SplitLinesAt(s, i) ==
    IF s = <<>> THEN <<>>
    ELSE IF i = 0 THEN <<s>>
    ELSE <<SubSeq(s, 1, i - 1)>> \o SplitLines(SubSeq(s, i + 1, Len(s)))

SplitLines(s) == SplitLinesAt(s, FirstIndex(s, "\n"))

Digits == <<"0", "1", "2", "3", "4", "5", "6", "7", "8", "9">>

\* '{}'.format(n) for n >= 0
RECURSIVE Str(_)
Str(n) ==
    IF n < 10 THEN <<Digits[n + 1]>> ELSE Str(n \div 10) \o <<Digits[(n % 10) + 1]>>

DigitValue(c) == (CHOOSE d \in 1..10 : Digits[d] = c) - 1

IsDigit(c) == \E d \in 1..10 : Digits[d] = c

RECURSIVE DigitsValue(_, _)
DigitsValue(s, acc) ==
    IF s = <<>> THEN acc ELSE DigitsValue(Tail(s), 10 * acc + DigitValue(Head(s)))

\* The outcome of a call that returns an int or raises.
Returned(v) == [raised |-> "", value |-> v]

Raised(exc) == [raised |-> exc, value |-> 0]

\* int(s): an optional sign, then digits; anything else raises ValueError
ParseSigned(s, body) ==
    IF body = <<>> \/ \E i \in 1..Len(body) : ~IsDigit(body[i])
    THEN Raised("ValueError")
    ELSE IF s # <<>> /\ Head(s) = "-"
         THEN Returned(0 - DigitsValue(body, 0))
         ELSE Returned(DigitsValue(body, 0))

ParseInt(s) ==
    ParseSigned(s, IF s # <<>> /\ Head(s) \in {"+", "-"} THEN Tail(s) ELSE s)

\* bytes.lower() / str.lower() on the letters the model uses
LowerChar(c) == IF c = "X" THEN "x" ELSE c

Lower(s) == [i \in 1..Len(s) |-> LowerChar(s[i])]

\* Sequences over S of length at most n
SeqsUpTo(S, n) == UNION {[1..k -> S] : k \in 0..n}

\* ------------------------------------------------- regular expressions
\* The patterns of the model are regular expressions of the form
\*   ["^"] atom*     atom ::= a literal character | "\" character
\* re.search on them: the literal text occurs in the subject, at its start
\* when the pattern is anchored.

RECURSIVE Unescape(_)
Unescape(p) ==
    IF p = <<>> THEN <<>>
    ELSE IF Head(p) = "\\" /\ Len(p) >= 2
         THEN <<p[2]>> \o Unescape(SubSeq(p, 3, Len(p)))
         ELSE <<Head(p)>> \o Unescape(Tail(p))

\* re.search(pattern, s) is not None
ReSearch(pattern, s) ==
    IF pattern # <<>> /\ Head(pattern) = "^"
    THEN StartsWith(s, Unescape(Tail(pattern)))
    ELSE Contains(s, Unescape(pattern))

\* ------------------------------------------- difflib.SequenceMatcher
\* A block is <<i, j, k>>: a[i:i+k] == b[j:j+k].

CommonBlocks(a, b, alo, ahi, blo, bhi) ==
    {blk \in (alo..ahi) \X (blo..bhi) \X (1..Max(ahi - alo, 0)) :
        /\ blk[1] + blk[3] <= ahi
        /\ blk[2] + blk[3] <= bhi
        /\ Slice(a, blk[1], blk[1] + blk[3]) = Slice(b, blk[2], blk[2] + blk[3])}

\* SequenceMatcher.find_longest_match: the longest common block, the
\* earliest in a among the longest, the earliest in b among those.
LongestOf(C, alo, blo) ==
    IF C = {}
    THEN <<alo, blo, 0>>
    ELSE CHOOSE x \in C :
            \A y \in C :
                \/ x[3] > y[3]
                \/ x[3] = y[3] /\ x[1] < y[1]
                \/ x[3] = y[3] /\ x[1] = y[1] /\ x[2] <= y[2]

find_longest_match(a, b, alo, ahi, blo, bhi) ==
    LongestOf(CommonBlocks(a, b, alo, ahi, blo, bhi), alo, blo)

\* The queue loop of get_matching_blocks followed by its sort: the blocks
\* left of the longest match, the match, the blocks right of it.
RECURSIVE MatchQueue(_, _, _, _, _, _)
MatchSplit(a, b, alo, ahi, blo, bhi, x) ==
    IF x[3] = 0
    THEN <<>>
    ELSE (IF alo < x[1] /\ blo < x[2]
          THEN MatchQueue(a, b, alo, x[1], blo, x[2]) ELSE <<>>)
         \o <<x>>
         \o (IF x[1] + x[3] < ahi /\ x[2] + x[3] < bhi
             THEN MatchQueue(a, b, x[1] + x[3], ahi, x[2] + x[3], bhi)
             ELSE <<>>)

MatchQueue(a, b, alo, ahi, blo, bhi) ==
    MatchSplit(a, b, alo, ahi, blo, bhi,
               find_longest_match(a, b, alo, ahi, blo, bhi))

\* The pass of get_matching_blocks that merges adjacent blocks; cur is the
\* block being grown (i1, j1, k1 in the library).
RECURSIVE CollapseAdjacent(_, _)
CollapseNext(blocks, cur, nxt) ==
    IF cur[1] + cur[3] = nxt[1] /\ cur[2] + cur[3] = nxt[2]
    THEN CollapseAdjacent(Tail(blocks), <<cur[1], cur[2], cur[3] + nxt[3]>>)
    ELSE (IF cur[3] > 0 THEN <<cur>> ELSE <<>>)
         \o CollapseAdjacent(Tail(blocks), nxt)

CollapseAdjacent(blocks, cur) ==
    IF blocks = <<>>
    THEN IF cur[3] > 0 THEN <<cur>> ELSE <<>>
    ELSE CollapseNext(blocks, cur, Head(blocks))

\* SequenceMatcher.get_matching_blocks, with its closing sentinel
get_matching_blocks(a, b) ==
    CollapseAdjacent(MatchQueue(a, b, 0, Len(a), 0, Len(b)), <<0, 0, 0>>)
        \o <<(<<Len(a), Len(b), 0>>)>>

\* An opcode is <<tag, i1, i2, j1, j2>>.
RECURSIVE OpcodesFrom(_, _, _)
OpcodesAt(blocks, i, j, ai, bj, size) ==
    (IF i < ai /\ j < bj THEN <<(<<"replace", i, ai, j, bj>>)>>
     ELSE IF i < ai THEN <<(<<"delete", i, ai, j, bj>>)>>
     ELSE IF j < bj THEN <<(<<"insert", i, ai, j, bj>>)>>
     ELSE <<>>)
    \o (IF size > 0
        THEN <<(<<"equal", ai, ai + size, bj, bj + size>>)>>
        ELSE <<>>)
    \o OpcodesFrom(Tail(blocks), ai + size, bj + size)

OpcodesFrom(blocks, i, j) ==
    IF blocks = <<>> THEN <<>>
    ELSE OpcodesAt(blocks, i, j,
                   Head(blocks)[1], Head(blocks)[2], Head(blocks)[3])

\* SequenceMatcher.get_opcodes
get_opcodes(a, b) == OpcodesFrom(get_matching_blocks(a, b), 0, 0)

\* The loop of get_grouped_opcodes: group is the group being built, the
\* result the groups yielded, the last one included when it shows a change.
RECURSIVE GroupLoop(_, _, _)
GroupNext(codes, group, n, tag, i1, i2, j1, j2) ==
    IF tag = "equal" /\ i2 - i1 > n + n
    THEN <<Append(group, <<tag, i1, Min(i2, i1 + n), j1, Min(j2, j1 + n)>>)>>
         \o GroupLoop(Tail(codes),
                      <<(<<tag, Max(i1, i2 - n), i2, Max(j1, j2 - n), j2>>)>>,
                      n)
    ELSE GroupLoop(Tail(codes), Append(group, Head(codes)), n)

GroupLoop(codes, group, n) ==
    IF codes = <<>>
    THEN IF group # <<>> /\ ~(Len(group) = 1 /\ group[1][1] = "equal")
         THEN <<group>> ELSE <<>>
    ELSE GroupNext(codes, group, n, Head(codes)[1], Head(codes)[2],
                   Head(codes)[3], Head(codes)[4], Head(codes)[5])

\* `if not codes: codes = [("equal", 0, 1, 0, 1)]`
CodesOrEqual(codes) ==
    IF codes = <<>> THEN <<(<<"equal", 0, 1, 0, 1>>)>> ELSE codes

\* The fixup of a leading group that shows no change.
FixLeading(codes, n) ==
    IF codes[1][1] = "equal"
    THEN [codes EXCEPT ![1] =
            <<codes[1][1], Max(codes[1][2], codes[1][3] - n), codes[1][3],
              Max(codes[1][4], codes[1][5] - n), codes[1][5]>>]
    ELSE codes

\* The fixup of a trailing group that shows no change.
FixTrailing(codes, n) ==
    IF codes[Len(codes)][1] = "equal"
    THEN [codes EXCEPT ![Len(codes)] =
            <<codes[Len(codes)][1], codes[Len(codes)][2],
              Min(codes[Len(codes)][3], codes[Len(codes)][2] + n),
              codes[Len(codes)][4],
              Min(codes[Len(codes)][5], codes[Len(codes)][4] + n)>>]
    ELSE codes

\* SequenceMatcher.get_grouped_opcodes(n)
get_grouped_opcodes(a, b, n) ==
    GroupLoop(FixTrailing(FixLeading(CodesOrEqual(get_opcodes(a, b)), n), n),
              <<>>, n)

\* difflib._format_range_unified
FormatRange(beginning, length) ==
    IF length = 1 THEN Str(beginning)
    ELSE Str(IF length = 0 THEN beginning - 1 ELSE beginning)
         \o <<",">> \o Str(length)

format_range_unified(start, stop) == FormatRange(start + 1, stop - start)

\* The entries one opcode of a group contributes to the diff. An entry is
\* the text of the diff line together with what the generator knows about
\* it: kind says what the line is, j the 0-based index in b of an added
\* line. Only text is visible to the consumer of the diff.
OpcodeEntries(a, b, op) ==
    IF op[1] = "equal"
    THEN [x \in 1..(op[3] - op[2]) |->
            [text |-> <<" ">> \o At(a, op[2] + x - 1),
             kind |-> "context", j |-> -1]]
    ELSE (IF op[1] \in {"replace", "delete"}
          THEN [x \in 1..(op[3] - op[2]) |->
                  [text |-> <<"-">> \o At(a, op[2] + x - 1),
                   kind |-> "removed", j |-> -1]]
          ELSE <<>>)
         \o (IF op[1] \in {"replace", "insert"}
             THEN [x \in 1..(op[5] - op[4]) |->
                     [text |-> <<"+">> \o At(b, op[4] + x - 1),
                      kind |-> "added", j |-> op[4] + x - 1]]
             ELSE <<>>)

RECURSIVE GroupBody(_, _, _)
GroupBody(a, b, group) ==
    IF group = <<>> THEN <<>>
    ELSE OpcodeEntries(a, b, Head(group)) \o GroupBody(a, b, Tail(group))

\* The entries of one group: its "@@ -file1_range +file2_range @@" header,
\* the ranges running from the group's first opcode to its last, then its
\* lines.
GroupEntries(a, b, group) ==
    <<[text |-> <<"@", "@", " ", "-">>
                \o format_range_unified(group[1][2], group[Len(group)][3])
                \o <<" ", "+">>
                \o format_range_unified(group[1][4], group[Len(group)][5])
                \o <<" ", "@", "@">>,
       kind |-> "hunk", j |-> group[1][4]]>>
    \o GroupBody(a, b, group)

RECURSIVE GroupsEntries(_, _, _)
GroupsEntries(a, b, groups) ==
    IF groups = <<>> THEN <<>>
    ELSE GroupEntries(a, b, Head(groups)) \o GroupsEntries(a, b, Tail(groups))

\* difflib.unified_diff(a, b, lineterm="", n=n), file names and dates empty:
\* the two file-header lines before the first hunk, then the hunks.
EntriesOfGroups(a, b, groups) ==
    IF groups = <<>> THEN <<>>
    ELSE <<[text |-> <<"-", "-", "-", " ">>, kind |-> "fromfile", j |-> -1],
           [text |-> <<"+", "+", "+", " ">>, kind |-> "tofile", j |-> -1]>>
         \o GroupsEntries(a, b, groups)

DiffEntries(a, b, n) == EntriesOfGroups(a, b, get_grouped_opcodes(a, b, n))

TextOf(es) == [k \in 1..Len(es) |-> es[k].text]

\* What the caller of unified_diff iterates over: the lines' text.
unified_diff(a, b, n) == TextOf(DiffEntries(a, b, n))

\* --------------------------------------------- check_for_markers.py

\* parse_line_number(line): the line number, or the ValueError it raises
\* LineNumberOfParts reading the old-file range (parts[1]) for the new one.
LineNumberOfOldRange(parts) ==
    IF Len(parts) # 4
    THEN Raised("ValueError")
    ELSE ParseInt(Split(parts[2], ",")[1])

\* The rest of parse_line_number once line is split into parts.
LineNumberOfParts(parts) ==
    IF Len(parts) # 4
    THEN Raised("ValueError")
    ELSE ParseInt(Split(parts[3], ",")[1])

parse_line_number(line) ==
    IF ~StartsWith(line, <<"@", "@">>)
    THEN Raised("ValueError")
    ELSE LineNumberOfParts(Split(line, " "))

\* The patterns of error_patterns, in order, that re.search finds in line;
\* a hit records the pattern, the value of line_number at the time, and
\* src, the index in the diff of the line searched (kept for the analysis,
\* the code has no such field).
RECURSIVE PatternHits(_, _, _, _)
PatternHits(error_patterns, line, line_number, src) ==
    IF error_patterns = <<>> THEN <<>>
    ELSE (IF ReSearch(Head(error_patterns), line)
          THEN <<[pattern |-> Head(error_patterns),
                  line_number |-> line_number, src |-> src]>>
          ELSE <<>>)
         \o PatternHits(Tail(error_patterns), line, line_number, src)

\* IsSkipped with the test for incoming changes narrowed to the "---" file
\* header: removed lines and hunk headers are searched too.
IsSkippedHeadersOnly(line) ==
    StartsWith(line, <<"-", "-", "-">>) \/ Strip(line) = <<"+", "+", "+">>

\* The test that skips a line of the diff: it is no incoming change, or it
\* is the "+++" file header.
IsSkipped(line) ==
    ~StartsWith(line, <<"+">>) \/ Strip(line) = <<"+", "+", "+">>

\* The for loop of collect_errors from the k-th line of diff_result on.
\* error_patterns is an Optional: main passes args.pattern, which is None
\* when --pattern was never given, and iterating None raises TypeError.
RECURSIVE ScanLoop(_, _, _, _, _)
\* The body of the loop for one line; parsed is line_number after the
\* `if line.startswith("@@")` that opens it, or the ValueError raised there.
ScanLine(diff_result, k, hits, error_patterns, line, parsed) ==
    IF parsed.raised # ""
    THEN [raised |-> parsed.raised, hits |-> hits]
    ELSE IF IsSkipped(line)
    THEN ScanLoop(diff_result, k + 1, parsed.value, hits, error_patterns)
    ELSE IF IsNone(error_patterns)
    THEN [raised |-> "TypeError", hits |-> hits]
    ELSE ScanLoop(diff_result, k + 1,
                  IF StartsWith(line, <<"+">>)
                  THEN parsed.value + 1 ELSE parsed.value,
                  hits \o PatternHits(Val(error_patterns), line,
                                      parsed.value, k),
                  error_patterns)

ScanLoop(diff_result, k, line_number, hits, error_patterns) ==
    IF k > Len(diff_result)
    THEN [raised |-> "", hits |-> hits]
    ELSE ScanLine(diff_result, k, hits, error_patterns, diff_result[k],
                  IF StartsWith(diff_result[k], <<"@", "@">>)
                  THEN parse_line_number(diff_result[k])
                  ELSE Returned(line_number))

\* collect_errors up to the formatting of its messages: the diff of the
\* two texts with no context, walked from line_number = 1.
ScanDiff(new_data, old_data, error_patterns) ==
    ScanLoop(unified_diff(SplitLines(old_data), SplitLines(new_data), 0),
             1, 1, <<>>, error_patterns)

\* repr() of a str that holds no quote
Repr(s) ==
    LET Esc(c) == IF c = "\\" THEN <<"\\", "\\">> ELSE <<c>>
        F[i \in 0..Len(s)] == IF i = 0 THEN <<>> ELSE F[i - 1] \o Esc(s[i])
    IN  <<"'">> \o F[Len(s)] \o <<"'">>

\* f"Error pattern {pattern!r} detected at {filename}:{line_number}"
ErrorMessage(pattern, filename, line_number) ==
    <<"E", "r", "r", "o", "r", " ", "p", "a", "t", "t", "e", "r", "n", " ">>
    \o Repr(pattern)
    \o <<" ", "d", "e", "t", "e", "c", "t", "e", "d", " ", "a", "t", " ">>
    \o filename \o <<":">> \o Str(line_number)

\* collect_errors(filename, new_data, old_data, error_patterns): the list
\* of messages it returns, or the exception that ends it
FormatHits(filename, r) ==
    [raised |-> r.raised,
     errors |-> [k \in 1..Len(r.hits) |->
                    ErrorMessage(r.hits[k].pattern, filename,
                                 r.hits[k].line_number)]]

collect_errors(filename, new_data, old_data, error_patterns) ==
    FormatHits(filename, ScanDiff(new_data, old_data, error_patterns))

\* A blob is a record of its bytes; the byte "\xff" is in no UTF-8 text,
\* every other byte of the model is ASCII and decodes to itself.
InvalidByte == "\\xff"

\* read_blob(blob)
read_blob(blob) ==
    IF IsNone(blob) THEN <<>>
    ELSE IF \E i \in 1..Len(Val(blob).bytes) : Val(blob).bytes[i] = InvalidByte
         THEN <<>>
         ELSE Val(blob).bytes

\* ------------------------------------------------------------ the state

VARIABLES
    \* main of check_for_markers
    argv,         \* the command line: the --pattern values and the files
    repo,         \* the repository: the state of HEAD and the staged files
    pc,           \* where main is
    args,         \* the Namespace parse_args returned
    against,      \* the reference the index is compared to
    diff_result,  \* the Diff objects the for loop has yet to visit
    errors,       \* the list main accumulates
    stdout,       \* the lines printed so far
    status,       \* the value main returned (None before it returns)
    exception,    \* the exception that left main uncaught ("" if none)
    \* a direct call of collect_errors
    s_pc,         \* where collect_errors is
    s_new, s_old, s_patterns,   \* its arguments new_data, old_data, error_patterns
    s_entries,    \* the diff it generated, with the generator's annotations
    s_ret,        \* what it returned (None before it returns)
    s_hits,       \* where each message of the result came from
    \* main of check_for_xxx
    x_repo,       \* the repository: the state of HEAD and the staged change
    x_pc,         \* where main is
    x_against, x_lines, x_matching, x_stdout, x_stderr, x_status, x_exception

mvars == <<argv, repo, pc, args, against, diff_result, errors, stdout,
           status, exception>>

svars == <<s_pc, s_new, s_old, s_patterns, s_entries, s_ret, s_hits>>

xvars == <<x_repo, x_pc, x_against, x_lines, x_matching, x_stdout, x_stderr,
           x_status, x_exception>>

vars == <<mvars, svars, xvars>>

\* ----------------------------------------------------------- the inputs

P_x == <<"x">>

P_caret_x == <<"^", "x">>

P_plus == <<"\\", "+">>

P_at == <<"@">>

\* The patterns handed to a direct call of collect_errors: a literal, the
\* same literal anchored at the start of the line, and an escaped "+".
Patterns == {P_x, P_caret_x, P_plus}

\* The lines texts are made of: a marker line, a line of two "+", and a
\* line that starts like a hunk header.
Lines == {<<"x">>, <<"+", "+">>, <<"@", "@">>}

\* The text whose lines are ls, each ended by "\n"
RECURSIVE JoinLines(_)
JoinLines(ls) ==
    IF ls = <<>> THEN <<>> ELSE Head(ls) \o <<"\n">> \o JoinLines(Tail(ls))

Texts(n) == {JoinLines(ls) : ls \in SeqsUpTo(Lines, n)}

\* The <<i>>-th path of the repository
Path(i) == <<"f", Digits[i + 1]>>

Blob(bytes) == Some([bytes |-> bytes])

\* The blobs of a driver run: two texts and a binary file
BlobSamples ==
    {Blob(<<"x", "\n">>),
     Blob(<<"@", "@", "\n", "x", "\n", "x", "\n">>),
     Blob(<<InvalidByte, "\n">>)}

\* A file of the repository: its blob in HEAD and in the index (None when
\* it is in neither), and whether only its mode differs.
FileStates ==
    {f \in [head_blob : BlobSamples \cup {None},
            index_blob : BlobSamples \cup {None},
            mode_changed : BOOLEAN] :
        /\ ~(IsNone(f.head_blob) /\ IsNone(f.index_blob))
        /\ f.mode_changed => (f.head_blob = f.index_blob)
        /\ (f.head_blob = f.index_blob) => f.mode_changed}

\* HEAD is a commit, or unborn (no commit yet), or rev-parse fails on it
\* for another reason ("broken"); only a commit has blobs.
Repos ==
    {r \in [head : {"commit", "unborn", "broken"},
            files : SeqsUpTo(FileStates, MaxFiles)] :
        r.head # "commit" =>
            \A i \in 1..Len(r.files) : IsNone(r.files[i].head_blob)}

ArgvPatternOptions == {<<>>, <<P_x>>, <<P_x, P_at>>}

ArgvFilesOptions == {<<>>, <<Path(1)>>}

EMPTY_TREE == "4b825dc642cb6eb9a060e54bf8d69288fbee4904"

HEAD_SHA == "sha-of-HEAD"

MainIdle ==
    /\ argv = [pattern |-> <<>>, files |-> <<>>]
    /\ repo = [head |-> "unborn", files |-> <<>>]
    /\ pc = "idle"
    /\ args = None
    /\ against = ""
    /\ diff_result = <<>>
    /\ errors = <<>>
    /\ stdout = <<>>
    /\ status = None
    /\ exception = ""

ScanIdle ==
    /\ s_pc = "idle"
    /\ s_new = <<>>
    /\ s_old = <<>>
    /\ s_patterns = <<>>
    /\ s_entries = <<>>
    /\ s_ret = None
    /\ s_hits = <<>>

XxxIdle ==
    /\ x_repo = [head |-> "unborn", change |-> <<>>]
    /\ x_pc = "idle"
    /\ x_against = ""
    /\ x_lines = <<>>
    /\ x_matching = <<>>
    /\ x_stdout = <<>>
    /\ x_stderr = <<>>
    /\ x_status = None
    /\ x_exception = ""

\* --------------------------------------- main of check_for_markers.py

Init ==
    /\ argv \in [pattern : ArgvPatternOptions, files : ArgvFilesOptions]
    /\ repo \in Repos
    /\ pc = "parse_args"
    /\ args = None
    /\ against = ""
    /\ diff_result = <<>>
    /\ errors = <<>>
    /\ stdout = <<>>
    /\ status = None
    /\ exception = ""
    /\ ScanIdle
    /\ XxxIdle

\* parse_args(): --pattern has action="append" and no default, so
\* args.pattern is None when the option never occurs.
parse_args ==
    [pattern |-> IF argv.pattern = <<>> THEN None ELSE Some(argv.pattern),
     files |-> argv.files]

ParseArgs ==
    /\ pc = "parse_args"
    /\ args' = Some(parse_args)
    /\ pc' = "rev_parse"
    /\ UNCHANGED <<argv, repo, against, diff_result, errors, stdout, status,
                   exception, svars, xvars>>

\* repo.git.rev_parse("HEAD", verify=True): the commit, or GitCommandError
RevParseRaises == repo.head # "commit"

\* The value of against after the try and the if that follows it.
OrEmptyTree(tried) == IF tried = "" THEN EMPTY_TREE ELSE tried

ResolvedAgainst == OrEmptyTree(IF RevParseRaises THEN "" ELSE HEAD_SHA)

ResolveAgainst ==
    /\ pc = "rev_parse"
    /\ against' = ResolvedAgainst
    /\ pc' = "index_diff"
    /\ UNCHANGED <<argv, repo, args, diff_result, errors, stdout, status,
                   exception, svars, xvars>>

\* repo.index.diff(other, paths): GitPython runs the diff reversed, so a
\* Diff's a side is the index and its b side is `other`; the empty tree
\* has no blob for any path. A path is listed when its blobs differ or its
\* mode does, and when paths is given only if it is one of them.
IndexDiff(other, paths) ==
    LET Entry(i) ==
            [a_blob |-> repo.files[i].index_blob,
             b_blob |-> IF other = EMPTY_TREE THEN None
                        ELSE repo.files[i].head_blob,
             b_path |-> Path(i)]
        Listed(i) ==
            /\ IsNone(paths) \/ \E k \in 1..Len(Val(paths)) : Val(paths)[k] = Path(i)
            /\ \/ Entry(i).a_blob # Entry(i).b_blob
               \/ repo.files[i].mode_changed /\ other # EMPTY_TREE
        F[i \in 0..Len(repo.files)] ==
            IF i = 0 THEN <<>>
            ELSE IF Listed(i) THEN Append(F[i - 1], Entry(i)) ELSE F[i - 1]
    IN  F[Len(repo.files)]

ListDiffs ==
    /\ pc = "index_diff"
    /\ diff_result' = IndexDiff(against,
                                IF Val(args).files = <<>> THEN None
                                ELSE Some(Val(args).files))
    /\ pc' = "loop"
    /\ UNCHANGED <<argv, repo, args, against, errors, stdout, status,
                   exception, svars, xvars>>

\* In a repository whose HEAD cannot be resolved the diff itself may fail;
\* the GitCommandError is caught nowhere.
ListDiffsFails ==
    /\ pc = "index_diff"
    /\ repo.head = "broken"
    /\ exception' = "GitCommandError"
    /\ pc' = "raised"
    /\ UNCHANGED <<argv, repo, args, against, diff_result, errors, stdout,
                   status, svars, xvars>>

\* The test at the head of the loop body that skips a Diff.
SkipsDiff(diff) == diff.a_blob = diff.b_blob \/ IsNone(diff.b_blob)

\* The call of collect_errors in the loop body: the a side is read as the
\* new text and the b side as the old one.
CollectFor(diff) ==
    collect_errors(diff.b_path, read_blob(diff.a_blob), read_blob(diff.b_blob),
                   Val(args).pattern)

\* What the loop body does with the outcome r of that call.
Extend(r) ==
    IF r.raised # ""
    THEN /\ exception' = r.raised
         /\ pc' = "raised"
         /\ UNCHANGED <<errors, diff_result>>
    ELSE /\ errors' = errors \o r.errors
         /\ diff_result' = Tail(diff_result)
         /\ UNCHANGED <<pc, exception>>

\* One pass of the for loop over diff_result.
LoopBody ==
    /\ pc = "loop"
    /\ diff_result # <<>>
    /\ IF SkipsDiff(Head(diff_result))
       THEN /\ diff_result' = Tail(diff_result)
            /\ UNCHANGED <<errors, pc, exception>>
       ELSE Extend(CollectFor(Head(diff_result)))
    /\ UNCHANGED <<argv, repo, args, against, stdout, status, svars, xvars>>

\* `if errors:` after the loop, and `return 0` when there are none.
LoopEnd ==
    /\ pc = "loop"
    /\ diff_result = <<>>
    /\ IF errors # <<>>
       THEN pc' = "print" /\ UNCHANGED status
       ELSE pc' = "done" /\ status' = Some(0)
    /\ UNCHANGED <<argv, repo, args, against, diff_result, errors, stdout,
                   exception, svars, xvars>>

\* One pass of `for error in errors: print(error)`.
PrintError ==
    /\ pc = "print"
    /\ Len(stdout) < Len(errors)
    /\ stdout' = Append(stdout, errors[Len(stdout) + 1])
    /\ UNCHANGED <<argv, repo, pc, args, against, diff_result, errors,
                   status, exception, svars, xvars>>

\* ReturnFailure with `return 1` inside the for loop: main returns after
\* the first print.
ReturnFailureInLoop ==
    /\ pc = "print"
    /\ Len(stdout) >= 1
    /\ status' = Some(1)
    /\ pc' = "done"
    /\ UNCHANGED <<argv, repo, args, against, diff_result, errors, stdout,
                   exception, svars, xvars>>

\* `return 1` once the for loop over errors is through.
ReturnFailure ==
    /\ pc = "print"
    /\ Len(stdout) = Len(errors)
    /\ status' = Some(1)
    /\ pc' = "done"
    /\ UNCHANGED <<argv, repo, args, against, diff_result, errors, stdout,
                   exception, svars, xvars>>

Next ==
    \/ ParseArgs
    \/ ResolveAgainst
    \/ ListDiffs
    \/ ListDiffsFails
    \/ LoopBody
    \/ LoopEnd
    \/ PrintError
    \/ ReturnFailure

Spec == Init /\ [][Next]_vars

\* ------------------------------------------ a direct call of collect_errors

FileName == Path(1)

InitScan ==
    /\ MainIdle
    /\ XxxIdle
    /\ s_pc = "call"
    /\ s_new \in Texts(MaxNewLines)
    /\ s_old \in Texts(MaxOldLines)
    /\ s_patterns \in SeqsUpTo(Patterns, MaxPatterns)
    /\ s_entries = <<>>
    /\ s_ret = None
    /\ s_hits = <<>>

\* The first statements of collect_errors, up to line_number = 1: the diff
\* of the two texts is generated, with no context.
GenerateDiff ==
    /\ s_pc = "call"
    /\ s_entries' = DiffEntries(SplitLines(s_old), SplitLines(s_new), 0)
    /\ s_pc' = "loop"
    /\ UNCHANGED <<s_new, s_old, s_patterns, s_ret, s_hits, mvars, xvars>>

\* What collect_errors returns once its loop has produced r.
Returns(r) ==
    /\ s_ret' = Some(FormatHits(FileName, r))
    /\ s_hits' = r.hits

\* The for loop of collect_errors over the text of the diff, and its
\* return.
WalkDiff ==
    /\ s_pc = "loop"
    /\ Returns(ScanLoop(TextOf(s_entries), 1, 1, <<>>, Some(s_patterns)))
    /\ s_pc' = "returned"
    /\ UNCHANGED <<s_new, s_old, s_patterns, s_entries, mvars, xvars>>

NextScan ==
    \/ GenerateDiff
    \/ WalkDiff


SpecScan == InitScan /\ [][NextScan]_vars

\* ------------------------------------------- main of check_for_xxx.py

Marker == <<"#", " ", "x", "x", "x">>

\* What a line of a staged change holds: the marker, the marker in upper
\* case, or something else.
XxxContents == {Marker, <<"#", " ", "X", "X", "X">>, <<"y">>}

\* A staged change is the body of the one hunk `git diff --cached` shows
\* for it: context lines, removed lines and added lines, at least one of
\* them a change. Against the empty tree every line is an added one.
XxxChanges ==
    {c \in SeqsUpTo([kind : {"context", "removed", "added"},
                     content : XxxContents], MaxDiffLines) :
        c = <<>> \/ \E i \in 1..Len(c) : c[i].kind # "context"}

XxxRepos ==
    {r \in [head : {"commit", "unborn", "broken"}, change : XxxChanges] :
        r.head # "commit" =>
            \A i \in 1..Len(r.change) : r.change[i].kind = "added"}

PrefixOf(kind) ==
    IF kind = "added" THEN "+" ELSE IF kind = "removed" THEN "-" ELSE " "

CountKinds(change, kinds) ==
    Cardinality({i \in 1..Len(change) : change[i].kind \in kinds})

\* The output of `git diff --cached <against>` for the staged change: empty
\* when nothing is staged, else the file headers, the hunk header and the
\* hunk's lines, each line ended by "\n".
GitDiffCached(change) ==
    IF change = <<>> THEN <<>>
    ELSE JoinLines(
           <<(<<"d", "i", "f", "f", " ", "-", "-", "g", "i", "t", " ",
                "a", "/", "f", " ", "b", "/", "f">>),
             (<<"-", "-", "-", " ", "a", "/", "f">>),
             (<<"+", "+", "+", " ", "b", "/", "f">>),
             (<<"@", "@", " ", "-", "1", ",">>
                \o Str(CountKinds(change, {"context", "removed"}))
                \o <<" ", "+", "1", ",">>
                \o Str(CountKinds(change, {"context", "added"}))
                \o <<" ", "@", "@">>)>>
           \o [i \in 1..Len(change) |->
                 <<PrefixOf(change[i].kind)>> \o change[i].content])

InitXxx ==
    /\ MainIdle
    /\ ScanIdle
    /\ x_repo \in XxxRepos
    /\ x_pc = "rev_parse"
    /\ x_against = ""
    /\ x_lines = <<>>
    /\ x_matching = <<>>
    /\ x_stdout = <<>>
    /\ x_stderr = <<>>
    /\ x_status = None
    /\ x_exception = ""

\* check_output(["git", "rev-parse", "--verify", "HEAD"]) raises
\* CalledProcessError whenever git exits with a non-zero status.
XRevParseRaises == x_repo.head # "commit"

\* The try/except that sets against.
XResolveAgainst ==
    /\ x_pc = "rev_parse"
    /\ x_against' = IF XRevParseRaises THEN EMPTY_TREE ELSE "HEAD"
    /\ x_pc' = "git_diff"
    /\ UNCHANGED <<x_repo, x_lines, x_matching, x_stdout, x_stderr, x_status,
                   x_exception, mvars, svars>>

\* lines = check_output(["git", "diff", "--cached", against]).splitlines()
XGitDiff ==
    /\ x_pc = "git_diff"
    /\ x_lines' = SplitLines(GitDiffCached(x_repo.change))
    /\ x_pc' = "match"
    /\ UNCHANGED <<x_repo, x_against, x_matching, x_stdout, x_stderr,
                   x_status, x_exception, mvars, svars>>

\* In a repository whose HEAD cannot be resolved git diff itself may fail;
\* the CalledProcessError is caught nowhere.
XGitDiffFails ==
    /\ x_pc = "git_diff"
    /\ x_repo.head = "broken"
    /\ x_exception' = "CalledProcessError"
    /\ x_pc' = "raised"
    /\ UNCHANGED <<x_repo, x_against, x_lines, x_matching, x_stdout,
                   x_stderr, x_status, mvars, svars>>

\* b"# xxx" in line.lower()
HasMarker(line) == Contains(Lower(line), Marker)

\* [line for line in lines if b"# xxx" in line.lower()]
RECURSIVE Matching(_)
Matching(lines) ==
    IF lines = <<>> THEN <<>>
    ELSE (IF HasMarker(Head(lines)) THEN <<Head(lines)>> ELSE <<>>)
         \o Matching(Tail(lines))

XMatch ==
    /\ x_pc = "match"
    /\ x_matching' = Matching(x_lines)
    /\ x_pc' = "report"
    /\ UNCHANGED <<x_repo, x_against, x_lines, x_stdout, x_stderr, x_status,
                   x_exception, mvars, svars>>

\* b"\n".join(lines)
RECURSIVE JoinNewline(_)
JoinNewline(lines) ==
    IF lines = <<>> THEN <<>>
    ELSE IF Len(lines) = 1 THEN Head(lines)
    ELSE Head(lines) \o <<"\n">> \o JoinNewline(Tail(lines))

XxxMessage == "This commit would introduce an XXX marker!"

\* The `if matching:` branch: the message on stderr, the matching lines
\* (joined into one bytes object) on stdout, and `return 1`.
XReport ==
    /\ x_pc = "report"
    /\ x_matching # <<>>
    /\ x_stderr' = Append(x_stderr, XxxMessage)
    /\ x_stdout' = Append(x_stdout, JoinNewline(x_matching))
    /\ x_status' = Some(1)
    /\ x_pc' = "done"
    /\ UNCHANGED <<x_repo, x_against, x_lines, x_matching, x_exception,
                   mvars, svars>>

\* `return 0`
XReturnSuccess ==
    /\ x_pc = "report"
    /\ x_matching = <<>>
    /\ x_status' = Some(0)
    /\ x_pc' = "done"
    /\ UNCHANGED <<x_repo, x_against, x_lines, x_matching, x_stdout,
                   x_stderr, x_exception, mvars, svars>>

NextXxx ==
    \/ XResolveAgainst
    \/ XGitDiff
    \/ XGitDiffFails
    \/ XMatch
    \/ XReport
    \/ XReturnSuccess

SpecXxx == InitXxx /\ [][NextXxx]_vars

\* ------------------------------------------------------------ the claims

NewLines == SplitLines(s_new)

\* Line L (1-based) of the new text is one the diff marks as added.
AddedAt(entries, L) ==
    \E k \in 1..Len(entries) : entries[k].kind = "added" /\ entries[k].j = L - 1

\* The files a driver run inspects: all of them, or those named.
Inspected(i) ==
    argv.files = <<>> \/ \E k \in 1..Len(argv.files) : argv.files[k] = Path(i)

Reported(msg) == \E k \in 1..Len(stdout) : stdout[k] = msg

\* C1: in main of check_for_markers, when the comparison base is the empty
\* tree and a staged file is new, every line of the file that matches a
\* configured pattern is reported, with line numbers counted from 1.
C1_NewFileLinesReported ==
    (pc = "done" /\ against = EMPTY_TREE /\ ~IsNone(Val(args).pattern)) =>
        \A i \in 1..Len(repo.files) :
            (Inspected(i) /\ ~IsNone(repo.files[i].index_blob)) =>
                \A L \in 1..Len(SplitLines(read_blob(repo.files[i].index_blob))) :
                    \A n \in 1..Len(Val(Val(args).pattern)) :
                        ReSearch(Val(Val(args).pattern)[n],
                                 SplitLines(read_blob(repo.files[i].index_blob))[L])
                        => Reported(ErrorMessage(Val(Val(args).pattern)[n],
                                                 Path(i), L))

\* C2: every error collect_errors returns carries the 1-based position in
\* the new text of the added line that produced it, whatever the added
\* lines hold and however many hunks there are.
HitsCarryNewPositions(entries) ==
    \A h \in 1..Len(s_hits) :
        /\ entries[s_hits[h].src].kind = "added"
        /\ s_hits[h].line_number = entries[s_hits[h].src].j + 1

C2_LineNumbersAreNewPositions ==
    s_pc = "returned" => HitsCarryNewPositions(s_entries)

\* C3: when --pattern is never given the run is inert: main of
\* check_for_markers reports nothing, does not fail and returns 0 (stated
\* for repositories whose HEAD resolves or is unborn).
C3_NoPatternIsInert ==
    (argv.pattern = <<>> /\ repo.head # "broken") =>
        /\ exception = ""
        /\ stdout = <<>>
        /\ pc = "done" => status = Some(0)

\* C4: every error collect_errors returns comes from a line the diff marks
\* as added; a removed line never produces one.
HitsComeFromAddedLines(entries) ==
    \A h \in 1..Len(s_hits) : entries[s_hits[h].src].kind = "added"

C4_OnlyAddedLinesReported ==
    s_pc = "returned" =>
        /\ Val(s_ret).raised = ""
        /\ Len(Val(s_ret).errors) = Len(s_hits)
        /\ HitsComeFromAddedLines(s_entries)

\* A marker line of the old text is removed, its pattern is in the list,
\* and the call returned no error.
RemovedMarkerIn(entries) ==
    \E k \in 1..Len(entries) :
        /\ entries[k].kind = "removed"
        /\ \E n \in 1..Len(s_patterns) :
              ReSearch(s_patterns[n], Tail(entries[k].text))

C4_Witness ==
    /\ s_pc = "returned"
    /\ Val(s_ret).errors = <<>>
    /\ RemovedMarkerIn(s_entries)

\* C5: main of check_for_xxx returns 1 only for a line the commit newly
\* adds: when it returns 1, some added line holds the marker in some
\* letter case.
C5_OnlyAddedMarkersFail ==
    (x_pc = "done" /\ x_status = Some(1)) =>
        \E i \in 1..Len(x_repo.change) :
            /\ x_repo.change[i].kind = "added"
            /\ HasMarker(x_repo.change[i].content)

\* Pattern p matches the added line of entry e: its own text when ownText,
\* else the diff line ("+" and the text).
MatchesAdded(p, e, ownText) ==
    IF ownText THEN ReSearch(p, Tail(e.text)) ELSE ReSearch(p, e.text)

\* The errors expected of a diff: for each added line in diff order, one
\* per pattern of the list that matches it, in list order.
ExpectedHits(entries, patterns, ownText) ==
    LET OfLine(k) ==
            LET G[n \in 0..Len(patterns)] ==
                    IF n = 0 THEN <<>>
                    ELSE IF MatchesAdded(patterns[n], entries[k], ownText)
                         THEN Append(G[n - 1], <<k, patterns[n]>>)
                         ELSE G[n - 1]
            IN  G[Len(patterns)]
        F[k \in 0..Len(entries)] ==
            IF k = 0 THEN <<>>
            ELSE IF entries[k].kind = "added"
                 THEN F[k - 1] \o OfLine(k)
                 ELSE F[k - 1]
    IN  F[Len(entries)]

HitsAsPairs == [h \in 1..Len(s_hits) |-> <<s_hits[h].src, s_hits[h].pattern>>]

\* C6: collect_errors emits exactly one error for each pattern of the list
\* that matches an added line, in list order, the added lines taken in hunk
\* order and top to bottom. "Matches" is read either way: on the line's
\* own text or on the diff line as the code searches it.
HitsAreTheExpected(entries) ==
    \/ HitsAsPairs = ExpectedHits(entries, s_patterns, TRUE)
    \/ HitsAsPairs = ExpectedHits(entries, s_patterns, FALSE)

C6_OneErrorPerMatchInOrder ==
    s_pc = "returned" => HitsAreTheExpected(s_entries)

\* C7: a failure of rev-parse that is not "no prior commit" aborts main of
\* check_for_markers: the run never goes on with the empty tree.
C7_BrokenHeadIsFatal ==
    (repo.head = "broken" /\ pc \notin {"parse_args", "rev_parse"}) =>
        /\ against # EMPTY_TREE
        /\ pc = "raised"

\* C8: main of check_for_markers returns 1 exactly when it collected at
\* least one error, every one of them printed by then, and 0 exactly when
\* it collected none, nothing printed.
C8_ExitStatusMatchesErrors ==
    pc = "done" =>
        /\ status \in {Some(0), Some(1)}
        /\ status = Some(1) <=> errors # <<>>
        /\ status = Some(0) <=> errors = <<>>
        /\ status = Some(1) => stdout = errors
        /\ status = Some(0) => stdout = <<>>

\* main returned 1 after collecting and printing two errors or more.
C8_Witness ==
    /\ pc = "done"
    /\ status = Some(1)
    /\ Len(errors) >= 2
    /\ stdout = errors

\* The first added line after hunk header k, 0 if the hunk adds none.
FirstAddedOf(entries, k) ==
    IF \E m \in (k + 1)..Len(entries) :
          /\ entries[m].kind = "added"
          /\ \A q \in (k + 1)..m : entries[q].kind # "hunk"
    THEN CHOOSE m \in (k + 1)..Len(entries) :
            /\ entries[m].kind = "added"
            /\ \A q \in (k + 1)..(m - 1) : entries[q].kind \notin {"added", "hunk"}
    ELSE 0

\* C9: every hunk header of the diff collect_errors generates splits into
\* four fields, the third holding the new-file start line (the position of
\* the hunk's first added line), so parse_line_number never raises; and
\* the lines that start with "@@" are the hunk headers, no content line.
HeaderParses(entries, k, first) ==
    /\ Len(Split(entries[k].text, " ")) = 4
    /\ Head(Split(entries[k].text, " ")[3]) = "+"
    /\ parse_line_number(entries[k].text).raised = ""
    /\ first # 0 =>
          parse_line_number(entries[k].text).value = entries[first].j + 1

HeadersParse(entries) ==
    \A k \in 1..Len(entries) :
        /\ StartsWith(entries[k].text, <<"@", "@">>) <=> entries[k].kind = "hunk"
        /\ entries[k].kind = "hunk" =>
              HeaderParses(entries, k, FirstAddedOf(entries, k))

C9_HeadersAlwaysParse ==
    s_pc = "returned" =>
        /\ Val(s_ret).raised = ""
        /\ HeadersParse(s_entries)

\* The diff has two hunks or more, an added line and a removed line whose
\* content starts with "@@", and an added line past line 1.
TwoHunksWithHeaderLikeLines(entries) ==
    /\ Cardinality({k \in 1..Len(entries) : entries[k].kind = "hunk"}) >= 2
    /\ \E k \in 1..Len(entries) :
          entries[k].kind = "added" /\ entries[k].text = <<"+", "@", "@">>
    /\ \E k \in 1..Len(entries) :
          entries[k].kind = "removed" /\ entries[k].text = <<"-", "@", "@">>
    /\ \E k \in 1..Len(entries) :
          entries[k].kind = "added" /\ entries[k].j >= 1

C9_Witness ==
    /\ s_pc = "returned"
    /\ TwoHunksWithHeaderLikeLines(s_entries)

\* C10: collect_errors searches each pattern in the added line's own text,
\* without the "+" of the diff: an error for pattern p at line L is
\* returned if and only if line L of the new text is an added line and p
\* matches it. Stated for new texts with no line that strips to "++", the
\* lines the loop skips.
ErrorsIffOwnTextMatches(entries, lines) ==
    (\A L \in 1..Len(lines) : Strip(lines[L]) # <<"+", "+">>) =>
        \A L \in 1..Len(lines) :
            \A n \in 1..Len(s_patterns) :
                (\E h \in 1..Len(s_hits) :
                    /\ s_hits[h].pattern = s_patterns[n]
                    /\ s_hits[h].line_number = L)
                <=> (AddedAt(entries, L) /\ ReSearch(s_patterns[n], lines[L]))

C10_MatchesOwnText ==
    s_pc = "returned" => ErrorsIffOwnTextMatches(s_entries, NewLines)

====
